---- MODULE Spec2Model ----
(***************************************************************************)
(* State-machine model of the PR turnaround scripts:                       *)
(*   pr_turnaround.py      multi-repository driver, fetch_prs_from_url      *)
(*   ufs-wm-turnaround.py  single-repository driver, fetch_prs              *)
(* Spec     runs either driver against a nondeterministic HTTP endpoint.    *)
(* SpecCalc applies compute_turnaround to bounded sequences of raw records. *)
(***************************************************************************)
EXTENDS Integers, Sequences, FiniteSets, TLC

\* ---------------------------------------------------------------- bounds
MaxPerPage == 2     \* page sizes 1..MaxPerPage stand for the per_page argument
MaxLimit == 3       \* --limit values 0..MaxLimit
MaxPages == 3       \* max_pages values 1..MaxPages of fetch_prs
MaxPageLen == 2     \* longest page the endpoint returns
MaxRepos == 2       \* longest repos list of the config file
MaxCalcLen == 2     \* longest raw sequence given to compute_turnaround in SpecCalc

\* ------------------------------------------------------------- timestamps
\* An ISO-8601 UTC timestamp "…-DDThh:mm:ssZ" is the tuple <<day, hh, mm, ss>>;
\* Python's None is the empty tuple.
None == <<>>

T0 == <<1, 0, 0, 0>>
T18s == <<1, 0, 0, 18>>
T54s == <<1, 0, 0, 54>>
T0630 == <<1, 6, 30, 0>>
T1d12 == <<2, 12, 0, 0>>
T5s == <<1, 0, 0, 5>>
T0730 == <<1, 0, 7, 30>>

CreatedStamps == {T0, T5s, T18s}
ClosedStamps == {T0, T18s, T54s, T0730, T0630, T1d12}

\* datetime.fromisoformat(s.replace("Z", "+00:00")): seconds on the UTC time line
fromisoformat(t) == ((t[1] * 24 + t[2]) * 60 + t[3]) * 60 + t[4]

\* `if closed:` / bool(merged): None is falsy, a timestamp string is truthy
AsBoolTruthy(v) == v # None
bool(v) == AsBoolTruthy(v)

\* ------------------------------------------------------------ round(x, 2)
RECURSIVE Pow2(_)
Pow2(e) == IF e = 0 THEN 1 ELSE 2 * Pow2(e - 1)

\* floor(log2(n / d)) for n, d > 0
RECURSIVE Log2Up(_, _, _)
Log2Up(n, d, j) == IF d * Pow2(j + 1) <= n THEN Log2Up(n, d, j + 1) ELSE j
RECURSIVE Log2Down(_, _, _)
Log2Down(n, d, m) == IF n * Pow2(m) < d THEN Log2Down(n, d, m + 1) ELSE -m
Log2Floor(n, d) == IF n >= d THEN Log2Up(n, d, 0) ELSE Log2Down(n, d, 0)

\* 2^e mod 25 (2 has order 20 modulo 25)
Pow2Mod25(e) == Pow2(e % 20) % 25

\* The quotient a / 3600 with a = 36k + 18 is the decimal tie (2k+1)/200.
\* The float division stores the nearest binary64 value; TRUE iff that value
\* lies above the tie (or, when the tie is exactly representable, iff
\* round-half-even goes up).
TieRoundsUp(k) ==
    LET n == 2 * k + 1 IN
    IF n % 25 = 0
    THEN k % 2 = 1
    ELSE (n * Pow2Mod25(49 - Log2Floor(n, 200))) % 25 >= 13

RoundMagnitudeTrunc(a) == a \div 36
\* hundredths of an hour nearest to a seconds (a >= 0)
RoundMagnitude(a) ==
    LET k == a \div 36
        r == a % 36
    IN  IF r < 18 THEN k
        ELSE IF r > 18 THEN k + 1
        ELSE IF TieRoundsUp(k) THEN k + 1 ELSE k

\* round(seconds / 3600, 2), in hundredths of an hour
round2(seconds) ==
    IF seconds >= 0 THEN RoundMagnitude(seconds) ELSE -RoundMagnitude(-seconds)

\* total seconds between two parsed timestamps, then hours rounded to 2 places
turnaround_hours(created, closed) ==
    round2(fromisoformat(closed) - fromisoformat(created))

\* ------------------------------------------------------ compute_turnaround
ClosedAndMerged(pr) == AsBoolTruthy(pr.closed_at) /\ AsBoolTruthy(pr.merged_at)
\* the `if closed:` test of the loop body
IsClosed(pr) == AsBoolTruthy(pr.closed_at)

MergedIffClosed(pr) == bool(pr.closed_at)
\* "merged": bool(merged)
MergedFlag(pr) == bool(pr.merged_at)

\* the dictionary appended for one closed raw record
TurnaroundRecord(pr) ==
    [number |-> pr.number,
     user |-> pr.user,
     created_at |-> fromisoformat(pr.created_at),
     closed_at |-> fromisoformat(pr.closed_at),
     merged |-> MergedFlag(pr),
     labels |-> pr.labels,
     turnaround_hours |-> turnaround_hours(pr.created_at, pr.closed_at)]

RECURSIVE Records(_)
Records(prs) ==
    IF prs = <<>> THEN <<>>
    ELSE LET rest == Records(Tail(prs)) IN
         IF IsClosed(Head(prs)) THEN <<TurnaroundRecord(Head(prs))>> \o rest
         ELSE rest

Columns == {"number", "user", "created_at", "closed_at", "merged", "labels",
            "turnaround_hours"}

\* pd.DataFrame(records): an empty list of dictionaries gives a frame without columns
DataFrame(records) ==
    [columns |-> IF records = <<>> THEN {} ELSE Columns, rows |-> records]

compute_turnaround(prs) == DataFrame(Records(prs))

NoFrame == [columns |-> {}, rows |-> <<>>]

\* df[df["merged"]]
IsMergedRow(row) == row.merged
MergedRows(df) == SelectSeq(df.rows, IsMergedRow)


\* median/min/max/mean of an empty selection are not-a-number
NaN == [nan |-> TRUE, num |-> 0, den |-> 0]
Number(num, den) == [nan |-> FALSE, num |-> num, den |-> den]

RECURSIVE SumHours(_)
SumHours(rows) ==
    IF rows = <<>> THEN 0 ELSE Head(rows).turnaround_hours + SumHours(Tail(rows))

MinHours(rows) ==
    CHOOSE h \in {rows[i].turnaround_hours : i \in 1..Len(rows)} :
        \A i \in 1..Len(rows) : h <= rows[i].turnaround_hours
MaxHours(rows) ==
    CHOOSE h \in {rows[i].turnaround_hours : i \in 1..Len(rows)} :
        \A i \in 1..Len(rows) : h >= rows[i].turnaround_hours

\* the figures summarize prints, in hundredths of an hour
Statistics(df) ==
    LET merged == MergedRows(df) IN
    [count |-> Len(merged),
     mean |-> IF merged = <<>> THEN NaN ELSE Number(SumHours(merged), Len(merged)),
     min |-> IF merged = <<>> THEN NaN ELSE Number(MinHours(merged), 1),
     max |-> IF merged = <<>> THEN NaN ELSE Number(MaxHours(merged), 1)]

NoSummary == [count |-> -1, mean |-> NaN, min |-> NaN, max |-> NaN]

\* ------------------------------------------------------------ the endpoint
Kinds == {"open", "closed", "merged"}

\* a raw pull-request record of the given kind, as the API returns it
RawRecord(number, kind) ==
    [number |-> number,
     user |-> "alice",
     labels |-> <<>>,
     created_at |-> T0,
     closed_at |-> IF kind = "open" THEN None
                   ELSE IF kind = "closed" THEN T0630 ELSE T1d12,
     merged_at |-> IF kind = "merged" THEN T1d12 ELSE None]

\* the non-empty pages the endpoint can answer page p with: n records of one
\* kind, numbered by page and position
PagesFor(p) ==
    { [i \in 1..n |-> RawRecord(p * 10 + i, kind)] :
        kind \in Kinds, n \in 1..MaxPageLen }

ErrorStatuses == {403, 500}
ErrorBody(status) == IF status = 403 THEN "rate limit exceeded" ELSE "server error"

\* ------------------------------------------------------------------ state
VARIABLES
    variant,      \* "multi": pr_turnaround.py, "single": ufs-wm-turnaround.py, "calc"
    repos,        \* names of the repositories to process
    per_page,     \* page size argument of the fetcher
    total_limit,  \* args.limit (multi)
    max_pages,    \* page cap of the fetch loop
    ri,           \* number of repositories whose iteration has started
    pc,           \* position of the driver
    page,         \* loop variable of the fetch loop
    prs,          \* records accumulated / returned by the fetcher
    log,          \* what the fetcher did for the current repository, in order
    received,     \* pages received with status 200 for the current repository
    df,           \* table built by compute_turnaround
    summary,      \* figures printed by summarize
    files,        \* artifacts written so far
    exc           \* uncaught exception that ended the process, or "none"

vars == <<variant, repos, per_page, total_limit, max_pages, ri, pc, page, prs,
          log, received, df, summary, files, exc>>

RepoNames == <<"repoA", "repoB", "repoC">>
REPO == "ufs-weather-model"

Event(ev, p, status, n, text) ==
    [ev |-> ev, page |-> p, status |-> status, n |-> n, text |-> text]
Get(p) == Event("get", p, 0, 0, "")
Recv(p, status, n) == Event("recv", p, status, n, "")
PrintError(p, status, text) == Event("error", p, status, 0, text)
Sleep(p) == Event("sleep", p, 0, 0, "")

\* ------------------------------------------------------------------- Init
InitMulti ==
    /\ variant = "multi"
    /\ \E n \in 0..MaxRepos : repos = SubSeq(RepoNames, 1, n)
    /\ per_page \in 1..MaxPerPage
    /\ total_limit \in 0..MaxLimit
    /\ max_pages = 0

InitSingle ==
    /\ variant = "single"
    /\ repos = <<REPO>>
    /\ per_page \in 1..MaxPerPage
    /\ total_limit = 0
    /\ max_pages \in 1..MaxPages

InitLocals ==
    /\ ri = 0
    /\ page = 1
    /\ prs = <<>>
    /\ log = <<>>
    /\ received = <<>>
    /\ df = NoFrame
    /\ summary = NoSummary
    /\ files = {}
    /\ exc = "none"

Init ==
    /\ InitMulti \/ InitSingle
    /\ InitLocals
    /\ pc = "loop"

\* ---------------------------------------------------------------- fetcher
MaxPagesNoCeil(limit, pp) == limit \div pp
\* max_pages = (total_limit + per_page - 1) // per_page
MaxPagesFor(limit, pp) == (limit + pp - 1) \div pp

LimitNeverReached(acc) == FALSE
\* `if len(prs) >= total_limit: break`, present in fetch_prs_from_url only
LimitReached(acc) == variant = "multi" /\ Len(acc) >= total_limit

ReturnedUntruncated(acc) == acc
\* `return prs[:total_limit]` (fetch_prs_from_url), `return prs` (fetch_prs)
Returned(acc) ==
    IF variant = "multi"
    THEN SubSeq(acc, 1, IF Len(acc) < total_limit THEN Len(acc) ELSE total_limit)
    ELSE acc

\* for repo in repos: ... prs = fetch_prs_from_url(url, total_limit=args.limit)
\* (single: prs = fetch_prs()); the fetcher starts with prs = [] and page = 1
StartRepo ==
    /\ pc = "loop"
    /\ ri < Len(repos)
    /\ ri' = ri + 1
    /\ max_pages' = IF variant = "multi" THEN MaxPagesFor(total_limit, per_page)
                    ELSE max_pages
    /\ page' = 1
    /\ prs' = <<>>
    /\ log' = <<>>
    /\ received' = <<>>
    /\ df' = NoFrame
    /\ summary' = NoSummary
    /\ pc' = "fetch"
    /\ UNCHANGED <<variant, repos, per_page, total_limit, files, exc>>

ErrorLoopsOn == "fetch"
\* where the `break` after the error message leaves the loop
ErrorGoesTo == "fetch_end"

\* response.status_code != 200: print the error and break
FetchError ==
    /\ pc = "fetch"
    /\ page <= max_pages
    /\ \E status \in ErrorStatuses :
         log' = log \o <<Get(page), Recv(page, status, 0),
                         PrintError(page, status, ErrorBody(status))>>
    /\ pc' = ErrorGoesTo
    /\ page' = IF ErrorGoesTo = "fetch" THEN page + 1 ELSE page
    /\ UNCHANGED <<variant, repos, per_page, total_limit, max_pages, ri,
                   prs, received, df, summary, files, exc>>

EmptyPageLoopsOn == "fetch"
\* where `if not data: break` leaves the loop
EmptyPageGoesTo == "fetch_end"

\* status 200 with an empty list: break
FetchEmpty ==
    /\ pc = "fetch"
    /\ page <= max_pages
    /\ log' = log \o <<Get(page), Recv(page, 200, 0)>>
    /\ received' = Append(received, <<>>)
    /\ pc' = EmptyPageGoesTo
    /\ page' = IF EmptyPageGoesTo = "fetch" THEN page + 1 ELSE page
    /\ UNCHANGED <<variant, repos, per_page, total_limit, max_pages, ri,
                   prs, df, summary, files, exc>>

\* status 200 with records: extend, then break at the limit or sleep and go on
FetchData ==
    /\ pc = "fetch"
    /\ page <= max_pages
    /\ \E data \in PagesFor(page) :
         /\ prs' = prs \o data
         /\ received' = Append(received, data)
         /\ IF LimitReached(prs \o data)
            THEN /\ log' = log \o <<Get(page), Recv(page, 200, Len(data))>>
                 /\ pc' = "fetch_end"
                 /\ page' = page
            ELSE /\ log' = log \o <<Get(page), Recv(page, 200, Len(data)), Sleep(page)>>
                 /\ pc' = "fetch"
                 /\ page' = page + 1
    /\ UNCHANGED <<variant, repos, per_page, total_limit, max_pages, ri,
                   df, summary, files, exc>>

\* range(1, max_pages + 1) is exhausted
FetchExhausted ==
    /\ pc = "fetch"
    /\ page > max_pages
    /\ pc' = "fetch_end"
    /\ UNCHANGED <<variant, repos, per_page, total_limit, max_pages, ri, page,
                   prs, log, received, df, summary, files, exc>>

\* the return statement of the fetcher
FetchReturn ==
    /\ pc = "fetch_end"
    /\ prs' = Returned(prs)
    /\ pc' = "fetched"
    /\ UNCHANGED <<variant, repos, per_page, total_limit, max_pages, ri, page,
                   log, received, df, summary, files, exc>>

\* ----------------------------------------------------------------- driver
\* df = compute_turnaround(prs)
Compute ==
    /\ pc = "fetched"
    /\ df' = compute_turnaround(prs)
    /\ pc' = "computed"
    /\ UNCHANGED <<variant, repos, per_page, total_limit, max_pages, ri, page,
                   prs, log, received, summary, files, exc>>

\* summarize: df["merged"] on a frame that has the column
SummarizeOk ==
    /\ pc = "computed"
    /\ "merged" \in df.columns
    /\ summary' = Statistics(df)
    /\ pc' = "summarized"
    /\ UNCHANGED <<variant, repos, per_page, total_limit, max_pages, ri, page,
                   prs, log, received, df, files, exc>>

\* summarize: df["merged"] on a frame without columns raises KeyError
SummarizeKeyError ==
    /\ pc = "computed"
    /\ "merged" \notin df.columns
    /\ exc' = "KeyError"
    /\ pc' = "crashed"
    /\ UNCHANGED <<variant, repos, per_page, total_limit, max_pages, ri, page,
                   prs, log, received, df, summary, files>>

\* df.to_csv(...)
ToCsv ==
    /\ pc = "summarized"
    /\ files' = files \cup {<<repos[ri], "csv">>}
    /\ pc' = "exported"
    /\ UNCHANGED <<variant, repos, per_page, total_limit, max_pages, ri, page,
                   prs, log, received, df, summary, exc>>

\* plot_turnaround with at least one merged row: the figure is saved
PlotOk ==
    /\ pc = "exported"
    /\ MergedRows(df) # <<>>
    /\ files' = files \cup {<<repos[ri], "png">>}
    /\ pc' = "loop"
    /\ UNCHANGED <<variant, repos, per_page, total_limit, max_pages, ri, page,
                   prs, log, received, df, summary, exc>>

\* plot_turnaround without merged rows: np.polyfit(x, y, 1) on empty vectors
\* raises TypeError
PlotTypeError ==
    /\ pc = "exported"
    /\ MergedRows(df) = <<>>
    /\ exc' = "TypeError"
    /\ pc' = "crashed"
    /\ UNCHANGED <<variant, repos, per_page, total_limit, max_pages, ri, page,
                   prs, log, received, df, summary, files>>

\* every repository has been processed: the process ends normally
Finish ==
    /\ pc = "loop"
    /\ ri = Len(repos)
    /\ pc' = "exit"
    /\ UNCHANGED <<variant, repos, per_page, total_limit, max_pages, ri, page,
                   prs, log, received, df, summary, files, exc>>

Next ==
    \/ StartRepo
    \/ FetchError
    \/ FetchEmpty
    \/ FetchData
    \/ FetchExhausted
    \/ FetchReturn
    \/ Compute
    \/ SummarizeOk
    \/ SummarizeKeyError
    \/ ToCsv
    \/ PlotOk
    \/ PlotTypeError
    \/ Finish

Spec == Init /\ [][Next]_vars


\* ------------------------------------------------------ compute_turnaround
\* raw records given to compute_turnaround in SpecCalc, numbered by position
Shapes == [created_at : CreatedStamps,
           closed_at : ClosedStamps \cup {None},
           merged_at : {None, T1d12}]

CalcRecord(i, shape) ==
    [number |-> i, user |-> "alice", labels |-> <<>>,
     created_at |-> shape.created_at,
     closed_at |-> shape.closed_at,
     merged_at |-> shape.merged_at]

\* the raw sequence whose i-th record has shape f[i]
CalcInput(f) == [i \in DOMAIN f |-> CalcRecord(i, f[i])]

InitCalc ==
    /\ variant = "calc"
    /\ repos = <<>>
    /\ per_page = 1
    /\ total_limit = 0
    /\ max_pages = 0
    /\ ri = 0
    /\ page = 1
    /\ \E n \in 0..MaxCalcLen : \E f \in [1..n -> Shapes] : prs = CalcInput(f)
    /\ log = <<>>
    /\ received = <<>>
    /\ df = NoFrame
    /\ summary = NoSummary
    /\ files = {}
    /\ exc = "none"
    /\ pc = "calc"

\* df = compute_turnaround(prs) on its own
CalcApply ==
    /\ pc = "calc"
    /\ df' = compute_turnaround(prs)
    /\ pc' = "calc_done"
    /\ UNCHANGED <<variant, repos, per_page, total_limit, max_pages, ri, page,
                   prs, log, received, summary, files, exc>>

NextCalc == CalcApply

SpecCalc == InitCalc /\ [][NextCalc]_vars


\* ============================================================ properties
RECURSIVE Flatten(_)
Flatten(pages) == IF pages = <<>> THEN <<>> ELSE Head(pages) \o Flatten(Tail(pages))

Take(seq, n) == [i \in 1..(IF Len(seq) < n THEN Len(seq) ELSE n) |-> seq[i]]

\* number of records in the first p pages received
RECURSIVE SumLen(_, _)
SumLen(pages, p) == IF p = 0 THEN 0 ELSE Len(pages[p]) + SumLen(pages, p - 1)

IsGet(e) == e.ev = "get"
IsSleep(e) == e.ev = "sleep"
Gets == SelectSeq(log, IsGet)
FailedAt(i) == log[i].ev = "recv" /\ log[i].status # 200
EmptyAt(i) == log[i].ev = "recv" /\ log[i].status = 200 /\ log[i].n = 0
ShortAt(i) == log[i].ev = "recv" /\ log[i].status = 200
              /\ log[i].n > 0 /\ log[i].n < per_page
GetAfter(i) == \E j \in (i + 1)..Len(log) : IsGet(log[j])
EndedByError == log # <<>> /\ log[Len(log)].ev = "error"
\* least k with k * d >= n
Ceil(n, d) == CHOOSE k \in 0..n : k * d >= n /\ \A m \in 0..(k - 1) : m * d < n

\* C1: fetch_prs_from_url returns the first total_limit records of the
\* concatenation, in request order, of the pages received with status 200;
\* its length never exceeds total_limit.
C1_ResultIsTruncatedConcatenation ==
    (variant = "multi" /\ pc = "fetched") =>
        /\ prs = Take(Flatten(received), total_limit)
        /\ Len(prs) <= total_limit

C1_Witness ==
    /\ variant = "multi" /\ pc = "fetched"
    /\ Len(received) >= 2
    /\ total_limit > 0
    /\ Len(Flatten(received)) > total_limit

\* C2 as stated: after a short non-empty page or an empty page no later page
\* is requested.
C2_ShortOrEmptyPageStops ==
    \A i \in 1..Len(log) : (ShortAt(i) \/ EmptyAt(i)) => ~GetAfter(i)

\* C2 amended: after an empty page no later page is requested, even below the
\* limit; a short non-empty page does not stop pagination: unless the limit or
\* the page cap is reached with it, the next page is requested.
C2_EmptyPageStops ==
    /\ \A i \in 1..Len(log) : EmptyAt(i) => ~GetAfter(i)
    /\ pc = "fetched" =>
         \A i \in 1..Len(log) :
            (/\ ShortAt(i)
             /\ log[i].page < max_pages
             /\ (variant = "multi" => SumLen(received, log[i].page) < total_limit))
            => \E j \in (i + 1)..Len(log) : log[j] = Get(log[i].page + 1)

C2_Witness ==
    /\ pc = "fetched"
    /\ log # <<>>
    /\ EmptyAt(Len(log))
    /\ Len(received) < max_pages
    /\ variant = "multi" => Len(prs) < total_limit
    /\ \E i \in 1..Len(log) : ShortAt(i)

\* C3 as stated: in the multi-repo driver a fetch loop ended by a non-success
\* response never aborts the run.
C3_FetchErrorDoesNotAbortRun ==
    (variant = "multi" /\ EndedByError) => pc # "crashed"

\* C4: on a status other than 200 the error is printed with status and body,
\* no further request is issued for the repository, and the records of the
\* pages received before are returned.
C4_ErrorStopsFetchKeepsPages ==
    /\ \A i \in 1..Len(log) :
         FailedAt(i) =>
            /\ i < Len(log)
            /\ log[i + 1] = PrintError(log[i].page, log[i].status,
                                       ErrorBody(log[i].status))
            /\ ~GetAfter(i)
    /\ (pc = "fetched" /\ EndedByError) => prs = Flatten(received)

C4_Witness ==
    /\ pc = "fetched"
    /\ EndedByError
    /\ prs # <<>>
    /\ Len(Gets) < max_pages

\* C5 as stated: an empty merged subset never ends the run with a failure.
C5_EmptyMergedSubsetCompletes ==
    (pc = "crashed") => MergedRows(df) # <<>>

\* C8: fetch_prs_from_url requests pages 1, 2, 3, ... in order, never more
\* than ceil(total_limit / per_page) of them, and exactly that many when every
\* page has status 200 and per_page records.
AllPagesFull ==
    /\ Len(received) = Len(Gets)
    /\ \A p \in 1..Len(received) : Len(received[p]) = per_page

C8_PagesInOrderAtMostCeil ==
    variant = "multi" =>
        /\ \A k \in 1..Len(Gets) : Gets[k].page = k
        /\ Len(Gets) <= Ceil(total_limit, per_page)
        /\ (pc = "fetched" /\ AllPagesFull) =>
              /\ Len(Gets) = Ceil(total_limit, per_page)
              /\ Len(prs) = total_limit

C8_Witness ==
    /\ variant = "multi" /\ pc = "fetched"
    /\ AllPagesFull
    /\ Len(Gets) = 2
    /\ total_limit % per_page # 0
    /\ Len(Flatten(received)) > total_limit
    /\ Len(prs) = total_limit

\* C10: exactly one sleep lies between two consecutive requests; no sleep
\* follows a page that failed or was empty; in fetch_prs_from_url no sleep
\* follows the page that brings the count to total_limit.
SleepsBetween(i, j) == Cardinality({k \in (i + 1)..(j - 1) : IsSleep(log[k])})

C10_OneSleepBetweenRequests ==
    /\ \A i, j \in 1..Len(log) :
         (/\ i < j /\ IsGet(log[i]) /\ IsGet(log[j])
          /\ \A k \in (i + 1)..(j - 1) : ~IsGet(log[k]))
         => SleepsBetween(i, j) = 1
    /\ \A i \in 1..Len(log) :
         IsSleep(log[i]) =>
            /\ i > 1
            /\ log[i - 1] = Recv(log[i].page, 200, log[i - 1].n)
            /\ log[i - 1].n > 0
            /\ variant = "multi" => SumLen(received, log[i].page) < total_limit

C10_Witness ==
    /\ pc = "fetched"
    /\ Len(Gets) >= 2
    /\ ~IsSleep(log[Len(log)])
    /\ variant = "multi"
    /\ Len(Flatten(received)) >= total_limit

\* ------------------------------------------------- compute_turnaround claims
HasClosingTimestamp(pr) == pr.closed_at # None
Numbers(seq) == [i \in 1..Len(seq) |-> seq[i].number]
RawOf(row) == prs[row.number]

\* C6: compute_turnaround outputs exactly one record, in input order, for each
\* input record with a non-null closing timestamp and none for the others;
\* the output is as long as the input iff no input lacks a closing timestamp.
C6_OneRowPerClosedRecord ==
    pc = "calc_done" =>
        /\ Numbers(df.rows) = Numbers(SelectSeq(prs, HasClosingTimestamp))
        /\ Len(df.rows) <= Len(prs)
        /\ (Len(df.rows) = Len(prs)) <=>
              (\A i \in 1..Len(prs) : prs[i].closed_at # None)

C6_Witness ==
    /\ pc = "calc_done"
    /\ Len(prs) = 2
    /\ prs[1].closed_at = None
    /\ prs[2].closed_at # None
    /\ prs[2].merged_at = None
    /\ Len(df.rows) = 1

\* C7: merged is true iff the raw record has a merge timestamp, and every
\* merged output record has a closing timestamp, also when the input holds a
\* record with a merge timestamp and no closing timestamp.
C7_MergedIffMergeTimestamp ==
    pc = "calc_done" =>
        \A i \in 1..Len(df.rows) :
            /\ df.rows[i].merged <=> (RawOf(df.rows[i]).merged_at # None)
            /\ df.rows[i].merged => RawOf(df.rows[i]).closed_at # None

C7_Witness ==
    /\ pc = "calc_done"
    /\ \E i \in 1..Len(prs) : prs[i].merged_at # None /\ prs[i].closed_at = None
    /\ \E i \in 1..Len(df.rows) : ~df.rows[i].merged

\* C9: turnaround_hours is the elapsed seconds divided by 3600 rounded to two
\* decimals (in hundredths: an integer nearest to seconds / 36), non-negative
\* when closed_at >= created_at; 36 hours give 36.0, 6 h 30 min give 6.5.
Elapsed(pr) == fromisoformat(pr.closed_at) - fromisoformat(pr.created_at)

C9_HoursRoundedToTwoDecimals ==
    pc = "calc_done" =>
        \A i \in 1..Len(df.rows) :
            LET s == Elapsed(RawOf(df.rows[i]))
                h == df.rows[i].turnaround_hours
            IN  /\ 36 * h - s <= 18
                /\ s - 36 * h <= 18
                /\ s >= 0 => h >= 0
                /\ s = 36 * 3600 => h = 3600
                /\ s = 6 * 3600 + 30 * 60 => h = 650

C9_Witness ==
    /\ pc = "calc_done"
    /\ \E i \in 1..Len(df.rows) :
         Elapsed(RawOf(df.rows[i])) = 23400 /\ df.rows[i].turnaround_hours = 650
    /\ \E i \in 1..Len(df.rows) :
         Elapsed(RawOf(df.rows[i])) % 36 > 18

====
